---- MODULE Spec2Model ----
(***************************************************************************)
(* json2lua: src/lib.rs.  parse(json) deserialises a JSON text into an     *)
(* insertion-ordered map and renders it as a Lua table literal through the *)
(* recursive walk, get_indent and validate_string.                         *)
(*                                                                         *)
(* Text is a sequence of one-character strings.  A JSON value is a record  *)
(* tagged by kind, as serde_json::Value is an enum:                        *)
(*   String(s) | Number(n) | Bool(b) | Null | Array(a) | Object(o)         *)
(* where o is the sequence of [k, v] entries in the map's iteration order. *)
(***************************************************************************)
EXTENDS Integers, Sequences, FiniteSets

VARIABLES json, pc, map, iter, lua, result, call, ret

vars == <<json, pc, map, iter, lua, result, call, ret>>

(***************************************************************************)
(* Characters                                                              *)
(***************************************************************************)
NL  == "\n"
TAB == "\t"
CR  == "\r"
BS  == "\\"
DQ  == "\""
FF  == "\f"

Special == {NL, TAB, CR, BS, DQ}

\* The alphabet of the strings that are enumerated exhaustively: the five
\* characters validate_string rewrites, another control character, the letter
\* that follows the backslash in an escape pair, and a plain letter.
Chars == Special \cup {FF, "n", "a"}

(***************************************************************************)
(* Bounds                                                                  *)
(***************************************************************************)
MaxStrLen == 2     \* length of the exhaustively enumerated strings
MaxDepth  == 2     \* depth argument of a direct call of walk / get_indent
MaxInt    == 12    \* integers -MaxInt..MaxInt are enumerated
MaxNodes  == 3     \* JSON nodes below the root of a document

(***************************************************************************)
(* Values                                                                  *)
(***************************************************************************)
None    == [some |-> FALSE, v |-> <<>>]
Some(x) == [some |-> TRUE, v |-> x]

StringV(s) == [kind |-> "String", s |-> s]
IntV(i)    == [kind |-> "Number", n |-> [t |-> "Int", i |-> i]]
FloatV(m)  == [kind |-> "Number", n |-> [t |-> "Float", tenths |-> m]]
BoolV(b)   == [kind |-> "Bool", b |-> b]
NullV      == [kind |-> "Null"]
ArrayV(a)  == [kind |-> "Array", a |-> a]
ObjectV(o) == [kind |-> "Object", o |-> o]

Entry(k, v) == [k |-> k, v |-> v]

IsContainer(value) == value.kind \in {"Array", "Object"}

Err(e)   == [state |-> "Err", err |-> e]
Ok(text) == [state |-> "Ok", lua |-> text]
Pending  == [state |-> "Pending"]

(***************************************************************************)
(* validate_string                                                         *)
(***************************************************************************)
validate_char_unescaped_backslash(char) ==
    CASE char = NL  -> <<BS, "n">>
      [] char = TAB -> <<BS, "t">>
      [] char = CR  -> <<BS, "r">>
      [] char = DQ  -> <<BS, DQ>>
      [] OTHER      -> <<char>>

validate_char_unescaped_quote(char) ==
    CASE char = NL  -> <<BS, "n">>
      [] char = TAB -> <<BS, "t">>
      [] char = CR  -> <<BS, "r">>
      [] char = BS  -> <<BS, BS>>
      [] OTHER      -> <<char>>

validate_char(char) ==
    CASE char = NL  -> <<BS, "n">>
      [] char = TAB -> <<BS, "t">>
      [] char = CR  -> <<BS, "r">>
      [] char = BS  -> <<BS, BS>>
      [] char = DQ  -> <<BS, DQ>>
      [] OTHER      -> <<char>>

RECURSIVE validate_loop(_, _, _)
validate_loop(string, i, validated) ==
    IF i > Len(string) THEN validated
    ELSE validate_loop(string, i + 1, validated \o validate_char(string[i]))

validate_string(string) == validate_loop(string, 1, <<>>)

(***************************************************************************)
(* get_indent                                                              *)
(***************************************************************************)
get_indent_one_more(depth) == [i \in 1..(depth + 1) |-> TAB]

get_indent(depth) == [i \in 1..depth |-> TAB]

(***************************************************************************)
(* Number and bool to_string                                               *)
(***************************************************************************)
Digit(d) == <<"0", "1", "2", "3", "4", "5", "6", "7", "8", "9">>[d + 1]

RECURSIVE digits(_)
digits(n) == IF n < 10 THEN <<Digit(n)>> ELSE digits(n \div 10) \o <<Digit(n % 10)>>

Abs(i) == IF i < 0 THEN -i ELSE i

Sign(i) == IF i < 0 THEN <<"-">> ELSE <<>>

\* serde_json::Number is an integer (PosInt, NegInt) or a float; the floats
\* modelled are those with one fractional digit, held as a number of tenths
\* (42 is 4.2, 10 is 1.0), whose Display text is <whole>.<digit>.
number_to_string(n) ==
    IF n.t = "Int" THEN Sign(n.i) \o digits(Abs(n.i))
    ELSE Sign(n.tenths) \o digits(Abs(n.tenths) \div 10) \o <<".">>
             \o <<Digit(Abs(n.tenths) % 10)>>

bool_to_string(b) == IF b THEN <<"t", "r", "u", "e">> ELSE <<"f", "a", "l", "s", "e">>

(***************************************************************************)
(* walk                                                                    *)
(***************************************************************************)
key_prefix(key) ==
    IF key.some
    THEN <<"[", DQ>> \o validate_string(key.v) \o <<DQ, "]", " ", "=", " ">>
    ELSE <<>>

primitive_null_as_null(value) ==
    CASE value.kind = "String" -> <<DQ>> \o validate_string(value.s) \o <<DQ>>
      [] value.kind = "Number" -> number_to_string(value.n)
      [] value.kind = "Bool"   -> bool_to_string(value.b)
      [] value.kind = "Null"   -> <<"n", "u", "l", "l">>

primitive(value) ==
    CASE value.kind = "String" -> <<DQ>> \o validate_string(value.s) \o <<DQ>>
      [] value.kind = "Number" -> number_to_string(value.n)
      [] value.kind = "Bool"   -> bool_to_string(value.b)
      [] value.kind = "Null"   -> <<"n", "i", "l">>

RECURSIVE walk(_, _, _), walk_elements(_, _), walk_members(_, _)

walk_elements_same_depth(a, depth) ==
    IF a = <<>> THEN <<>>
    ELSE walk(None, Head(a), depth) \o walk_elements(Tail(a), depth)

\* for v in a { lua.push_str(&walk(None, v, depth + 1)) }
walk_elements(a, depth) ==
    IF a = <<>> THEN <<>>
    ELSE walk(None, Head(a), depth + 1) \o walk_elements(Tail(a), depth)

walk_members_reversed(o, depth) ==
    IF o = <<>> THEN <<>>
    ELSE walk_members(Tail(o), depth) \o walk(Some(Head(o).k), Head(o).v, depth + 1)

\* for (k, v) in o { lua.push_str(&walk(Some(k), v, depth + 1)) }
walk_members(o, depth) ==
    IF o = <<>> THEN <<>>
    ELSE walk(Some(Head(o).k), Head(o).v, depth + 1) \o walk_members(Tail(o), depth)

walk_value(value, depth) ==
    CASE value.kind = "Array" ->
            <<"[", NL>> \o walk_elements(value.a, depth) \o get_indent(depth) \o <<"]">>
      [] value.kind = "Object" ->
            <<"{", NL>> \o walk_members(value.o, depth) \o get_indent(depth) \o <<"}">>
      [] OTHER -> primitive(value)

walk_no_comma_after_container(key, value, depth) ==
    get_indent(depth) \o key_prefix(key) \o walk_value(value, depth)
        \o (IF IsContainer(value) THEN <<NL>> ELSE <<",", NL>>)

walk(key, value, depth) ==
    get_indent(depth) \o key_prefix(key) \o walk_value(value, depth) \o <<",", NL>>

(***************************************************************************)
(* from_str: the deserialisation of the text into IndexMap<String, Value>  *)
(*                                                                         *)
(* A document is [valid |-> FALSE] (not JSON) or [valid |-> TRUE, root]    *)
(* where root is the value as written: the o of an object is the sequence  *)
(* of its members in text order, a key possibly more than once.            *)
(***************************************************************************)
HasKey(m, k) == \E i \in 1..Len(m) : m[i].k = k

IndexOfKey(m, k) == CHOOSE i \in 1..Len(m) : m[i].k = k

\* serde_json::Map::insert, the map of a nested Value::Object
MapInsert(m, k, v) ==
    IF HasKey(m, k) THEN [m EXCEPT ![IndexOfKey(m, k)].v = v]
    ELSE Append(m, Entry(k, v))

\* IndexMap::insert: a new key goes last, a known key keeps its place
IndexMapInsert(m, k, v) ==
    IF HasKey(m, k) THEN [m EXCEPT ![IndexOfKey(m, k)].v = v]
    ELSE Append(m, Entry(k, v))

RECURSIVE to_value(_), collect_map(_, _), collect_array(_)

to_value(text) ==
    CASE text.kind = "Array"  -> ArrayV(collect_array(text.a))
      [] text.kind = "Object" -> ObjectV(collect_map(text.o, <<>>))
      [] OTHER -> text

collect_array(a) ==
    IF a = <<>> THEN <<>> ELSE <<to_value(Head(a))>> \o collect_array(Tail(a))

collect_map(members, m) ==
    IF members = <<>> THEN m
    ELSE collect_map(Tail(members), MapInsert(m, Head(members).k, to_value(Head(members).v)))

RECURSIVE collect_index_map(_, _)
collect_index_map(members, m) ==
    IF members = <<>> THEN m
    ELSE collect_index_map(Tail(members),
                           IndexMapInsert(m, Head(members).k, to_value(Head(members).v)))

from_str_accepting_anything(text) ==
    IF text.valid /\ text.root.kind = "Object"
    THEN [ok |-> TRUE, map |-> collect_index_map(text.root.o, <<>>)]
    ELSE [ok |-> TRUE, map |-> <<>>]

from_str_root_array_as_map(text) ==
    IF ~text.valid THEN [ok |-> FALSE, err |-> "syntax"]
    ELSE IF text.root.kind = "Object"
    THEN [ok |-> TRUE, map |-> collect_index_map(text.root.o, <<>>)]
    ELSE [ok |-> TRUE, map |-> <<>>]

from_str(text) ==
    IF ~text.valid THEN [ok |-> FALSE, err |-> "syntax"]
    ELSE IF text.root.kind # "Object" THEN [ok |-> FALSE, err |-> "invalid type"]
    ELSE [ok |-> TRUE, map |-> collect_index_map(text.root.o, <<>>)]

(***************************************************************************)
(* Inputs                                                                  *)
(***************************************************************************)
Leaves == {StringV(<<"s", NL>>), IntV(420), NullV}

Keys == {<<"k">>, <<"q", DQ>>}

RECURSIVE TextValues(_), TextElements(_), TextMembers(_)
RECURSIVE TextElementsFrom(_, _), TextMembersFrom(_, _)

\* the values that consist of exactly n nodes
TextValues(n) ==
    IF n = 1 THEN Leaves \cup {ArrayV(<<>>), ObjectV(<<>>)}
    ELSE {ArrayV(a) : a \in TextElements(n - 1)}
             \cup {ObjectV(o) : o \in TextMembers(n - 1)}

\* the sequences of values of n nodes in all whose first value has j or more
TextElementsFrom(n, j) ==
    IF j > n THEN {}
    ELSE {<<v>> \o r : v \in TextValues(j), r \in TextElements(n - j)}
             \cup TextElementsFrom(n, j + 1)

TextElements(n) == IF n = 0 THEN {<<>>} ELSE TextElementsFrom(n, 1)

TextMembersFrom(n, j) ==
    IF j > n THEN {}
    ELSE {<<Entry(k, v)>> \o r : k \in Keys, v \in TextValues(j), r \in TextMembers(n - j)}
             \cup TextMembersFrom(n, j + 1)

TextMembers(n) == IF n = 0 THEN {<<>>} ELSE TextMembersFrom(n, 1)

\* the values that consist of at most n nodes
RECURSIVE TextValuesUpTo(_)
TextValuesUpTo(n) == IF n = 0 THEN {} ELSE TextValues(n) \cup TextValuesUpTo(n - 1)

Documents ==
    {[valid |-> FALSE]} \cup {[valid |-> TRUE, root |-> v] : v \in TextValuesUpTo(MaxNodes + 1)}

RECURSIVE Strings(_)
Strings(n) ==
    IF n = 0 THEN {<<>>}
    ELSE Strings(n - 1) \cup {Append(s, c) : s \in Strings(n - 1), c \in Chars}

Numbers == {IntV(i) : i \in (-MaxInt)..MaxInt} \cup {IntV(420), IntV(12345)}
               \cup {FloatV(m) : m \in {-15, -5, 0, 10, 42}}

Primitives ==
    {StringV(s) : s \in Strings(MaxStrLen)} \cup Numbers \cup {BoolV(TRUE), BoolV(FALSE), NullV}

WalkKeys == {None, Some(<<>>), Some(<<"k">>), Some(<<DQ>>), Some(<<BS, "n">>)}

Calls ==
    {[fn |-> "validate_string", string |-> s] : s \in Strings(MaxStrLen + 1)}
        \cup {[fn |-> "get_indent", depth |-> d] : d \in 0..MaxDepth}
        \cup {[fn |-> "walk", key |-> k, value |-> v, depth |-> d] :
                  k \in WalkKeys, v \in Primitives, d \in 0..MaxDepth}

NoCall == [fn |-> "none"]

(***************************************************************************)
(* parse, one action per step                                              *)
(***************************************************************************)
Init ==
    /\ json \in Documents
    /\ pc = "start"
    /\ map = <<>>
    /\ iter = 1
    /\ lua = <<>>
    /\ result = Pending
    /\ call = NoCall
    /\ ret = None

\* let json: IndexMap<String, Value> = from_str(json)?;   -- the ? returns the error
FromStrErr ==
    /\ pc = "start"
    /\ ~from_str(json).ok
    /\ result' = Err(from_str(json).err)
    /\ pc' = "done"
    /\ UNCHANGED <<json, map, iter, lua, call, ret>>

\* ... from_str succeeded; let mut lua = String::from("{\n");
FromStrOk ==
    /\ pc = "start"
    /\ from_str(json).ok
    /\ map' = from_str(json).map
    /\ lua' = <<"{", NL>>
    /\ iter' = 1
    /\ pc' = "loop"
    /\ UNCHANGED <<json, result, call, ret>>

\* for (key, value) in json { lua.push_str(&walk(Some(&validate_string(&key)), &value, 1)); }
LoopBody ==
    /\ pc = "loop"
    /\ iter <= Len(map)
    /\ lua' = lua \o walk(Some(validate_string(map[iter].k)), map[iter].v, 1)
    /\ iter' = iter + 1
    /\ UNCHANGED <<json, pc, map, result, call, ret>>

\* lua.push('}'); Ok(lua)
Return ==
    /\ pc = "loop"
    /\ iter > Len(map)
    /\ lua' = Append(lua, "}")
    /\ result' = Ok(lua')
    /\ pc' = "done"
    /\ UNCHANGED <<json, map, iter, call, ret>>

Next == FromStrErr \/ FromStrOk \/ LoopBody \/ Return

Spec == Init /\ [][Next]_vars

(***************************************************************************)
(* The functions called directly                                           *)
(***************************************************************************)
InitFn ==
    /\ call \in Calls
    /\ ret = None
    /\ json = [valid |-> FALSE]
    /\ pc = "fn"
    /\ map = <<>>
    /\ iter = 1
    /\ lua = <<>>
    /\ result = Pending

CallValidateString ==
    /\ pc = "fn"
    /\ call.fn = "validate_string"
    /\ ~ret.some
    /\ ret' = Some(validate_string(call.string))
    /\ UNCHANGED <<json, pc, map, iter, lua, result, call>>

CallGetIndent ==
    /\ pc = "fn"
    /\ call.fn = "get_indent"
    /\ ~ret.some
    /\ ret' = Some(get_indent(call.depth))
    /\ UNCHANGED <<json, pc, map, iter, lua, result, call>>

CallWalk ==
    /\ pc = "fn"
    /\ call.fn = "walk"
    /\ ~ret.some
    /\ ret' = Some(walk(call.key, call.value, call.depth))
    /\ UNCHANGED <<json, pc, map, iter, lua, result, call>>

NextFn == CallValidateString \/ CallGetIndent \/ CallWalk

SpecFn == InitFn /\ [][NextFn]_vars

(***************************************************************************)
(* Reading the output back                                                 *)
(***************************************************************************)
Tabs(n) == [i \in 1..n |-> TAB]

Last(s) == s[Len(s)]

StartsWith(s, p) == Len(s) >= Len(p) /\ SubSeq(s, 1, Len(p)) = p

RECURSIVE SplitFrom(_, _, _, _)
SplitFrom(text, i, cur, acc) ==
    IF i > Len(text) THEN Append(acc, cur)
    ELSE IF text[i] = NL THEN SplitFrom(text, i + 1, <<>>, Append(acc, cur))
    ELSE SplitFrom(text, i + 1, Append(cur, text[i]), acc)

\* the lines of a text: the pieces between its newline characters
SplitLines(text) == SplitFrom(text, 1, <<>>, <<>>)

RECURSIVE LeadingTabsFrom(_, _)
LeadingTabsFrom(line, i) ==
    IF i <= Len(line) /\ line[i] = TAB THEN LeadingTabsFrom(line, i + 1) ELSE i - 1

LeadingTabs(line) == LeadingTabsFrom(line, 1)

\* the position of the quote that closes a Lua string whose content starts at i
\* (a backslash takes the next character with it); 0 when it is never closed
RECURSIVE StrEnd(_, _)
StrEnd(text, i) ==
    IF i > Len(text) THEN 0
    ELSE IF text[i] = BS THEN StrEnd(text, i + 2)
    ELSE IF text[i] = DQ THEN i
    ELSE StrEnd(text, i + 1)

\* the line has the shape <d tabs>["<text>"] = ...
HasKeyPrefix(line, d) ==
    /\ Len(line) >= d + 2
    /\ line[d + 1] = "["
    /\ line[d + 2] = DQ
    /\ StrEnd(line, d + 3) > 0
    /\ StartsWith(SubSeq(line, StrEnd(line, d + 3) + 1, Len(line)), <<"]", " ", "=", " ">>)

\* the text between the quotes of the key of such a line
LexedKey(line, d) == SubSeq(line, d + 3, StrEnd(line, d + 3) - 1)

\* the five substitutions reversed, left to right
UnescapeChar(c) ==
    CASE c = "n" -> NL
      [] c = "t" -> TAB
      [] c = "r" -> CR
      [] OTHER   -> c

RECURSIVE WellEscaped(_)
WellEscaped(e) ==
    IF e = <<>> THEN TRUE
    ELSE IF Head(e) = BS
         THEN Len(e) >= 2 /\ e[2] \in {"n", "t", "r", BS, DQ} /\ WellEscaped(Tail(Tail(e)))
    ELSE Head(e) \notin Special /\ WellEscaped(Tail(e))

RECURSIVE Unescape(_)
Unescape(e) ==
    IF e = <<>> THEN <<>>
    ELSE IF Head(e) = BS /\ Len(e) >= 2
         THEN <<UnescapeChar(e[2])>> \o Unescape(Tail(Tail(e)))
    ELSE <<Head(e)>> \o Unescape(Tail(e))

\* the text without its escape pairs
RECURSIVE StripEscapes(_)
StripEscapes(e) ==
    IF e = <<>> THEN <<>>
    ELSE IF Head(e) = BS THEN (IF Len(e) >= 2 THEN StripEscapes(Tail(Tail(e))) ELSE <<>>)
    ELSE <<Head(e)>> \o StripEscapes(Tail(e))

IsPlain(c) == c \notin Special

\* the number of backslashes that end at position i
RECURSIVE BackslashRun(_, _)
BackslashRun(text, i) ==
    IF i >= 1 /\ text[i] = BS THEN 1 + BackslashRun(text, i - 1) ELSE 0

(***************************************************************************)
(* The nodes of a value tree in document order, one row per output line:   *)
(* a primitive is one row, a container an opening row, its children's rows *)
(* one level deeper, and a closing row.                                    *)
(***************************************************************************)
Row(depth, key, value, role, parent) ==
    [depth |-> depth, key |-> key, value |-> value, role |-> role, parent |-> parent]

RECURSIVE RowsOf(_, _, _, _), RowsOfElements(_, _), RowsOfMembers(_, _)

RowsOf(key, value, depth, parent) ==
    CASE value.kind = "Array" ->
            <<Row(depth, key, value, "open", parent)>>
                \o RowsOfElements(value.a, depth + 1)
                \o <<Row(depth, key, value, "close", parent)>>
      [] value.kind = "Object" ->
            <<Row(depth, key, value, "open", parent)>>
                \o RowsOfMembers(value.o, depth + 1)
                \o <<Row(depth, key, value, "close", parent)>>
      [] OTHER -> <<Row(depth, key, value, "leaf", parent)>>

RowsOfElements(a, depth) ==
    IF a = <<>> THEN <<>>
    ELSE RowsOf(None, Head(a), depth, "Array") \o RowsOfElements(Tail(a), depth)

RowsOfMembers(o, depth) ==
    IF o = <<>> THEN <<>>
    ELSE RowsOf(Some(Head(o).k), Head(o).v, depth, "Object") \o RowsOfMembers(Tail(o), depth)

\* the rows of the document whose root object is m
RootRows(m) == RowsOf(None, ObjectV(m), 0, "None")

OutLines == SplitLines(result.lua)

OutRows == RootRows(map)

Succeeded == pc = "done" /\ result.state = "Ok"

(***************************************************************************)
(* Properties of parse (specification Spec)                                *)
(***************************************************************************)

\* C1: every object key, a key of the root object included, is emitted as
\* ["E"] = with E the key escaped exactly once.
C1_KeysEscapedOnce ==
    Succeeded =>
        /\ Len(OutLines) = Len(OutRows)
        /\ \A i \in 1..Len(OutRows) :
               OutRows[i].key.some /\ OutRows[i].role # "close" =>
                   /\ HasKeyPrefix(OutLines[i], OutRows[i].depth)
                   /\ LexedKey(OutLines[i], OutRows[i].depth)
                          = validate_string(OutRows[i].key.v)

\* The keyed lines of the output in order, each with its depth and its key.
\* The key is read back by reversing the substitutions as often as the code
\* applied them: twice for a member of the root (lib.rs lines 66 and 80),
\* once below.
DecodeKey(text, d) == IF d = 1 THEN Unescape(Unescape(text)) ELSE Unescape(text)

RECURSIVE KeyTrace(_, _)
KeyTrace(lines, i) ==
    IF i > Len(lines) THEN <<>>
    ELSE LET d == LeadingTabs(lines[i])
         IN  (IF HasKeyPrefix(lines[i], d)
              THEN <<[depth |-> d, key |-> DecodeKey(LexedKey(lines[i], d), d)]>>
              ELSE <<>>) \o KeyTrace(lines, i + 1)

\* The members of an object as written, each key once, at the place where it
\* first appears and with the value written last for it.
LastValue(members, k) ==
    members[CHOOSE i \in 1..Len(members) :
                /\ members[i].k = k
                /\ \A j \in (i + 1)..Len(members) : members[j].k # k].v

RECURSIVE FirstAppearances(_, _)
FirstAppearances(members, i) ==
    IF i > Len(members) THEN <<>>
    ELSE (IF \E j \in 1..(i - 1) : members[j].k = members[i].k
          THEN <<>>
          ELSE <<Entry(members[i].k, LastValue(members, members[i].k))>>)
             \o FirstAppearances(members, i + 1)

\* The keys of the document as written, in text order, with their depths.
RECURSIVE TextKeyTrace(_, _), TextKeyTraceAll(_, _, _)
TextKeyTrace(text, d) ==
    CASE text.kind = "Array"  -> TextKeyTraceAll(text.a, d + 1, FALSE)
      [] text.kind = "Object" -> TextKeyTraceAll(FirstAppearances(text.o, 1), d + 1, TRUE)
      [] OTHER -> <<>>

TextKeyTraceAll(items, d, keyed) ==
    IF items = <<>> THEN <<>>
    ELSE (IF keyed
          THEN <<[depth |-> d, key |-> Head(items).k]>> \o TextKeyTrace(Head(items).v, d)
          ELSE TextKeyTrace(Head(items), d))
             \o TextKeyTraceAll(Tail(items), d, keyed)

\* C2: the ["key"] = entries of every object, at the root and nested, appear
\* in the output in the order in which the keys first appear in the input
\* text, each exactly once.
C2_KeyOrder == Succeeded => KeyTrace(OutLines, 1) = TextKeyTrace(json.root, 0)

\* C2 witness: a nested object whose two keys are written in descending
\* order has been rendered.
C2_Witness ==
    /\ Succeeded
    /\ Len(json.root.o) = 1
    /\ json.root.o[1].v.kind = "Object"
    /\ Len(json.root.o[1].v.o) = 2
    /\ json.root.o[1].v.o[1].k = <<"q", DQ>>
    /\ json.root.o[1].v.o[2].k = <<"k">>

\* C5: every entry ends with a comma and a newline, the last entry of its
\* container included; the output starts with "{\n" and ends with the root's
\* "}" with nothing after it.
C5_TrailingComma ==
    Succeeded =>
        LET n == Len(OutLines)
        IN  /\ n = Len(OutRows)
            /\ StartsWith(result.lua, <<"{", NL>>)
            /\ Last(result.lua) = "}"
            /\ OutLines[1] = <<"{">>
            /\ OutLines[n] = <<"}">>
            /\ \A i \in 2..(n - 1) :
                   /\ OutLines[i] # <<>>
                   /\ IF OutRows[i].role = "open"
                      THEN Last(OutLines[i]) \in {"[", "{"}
                      ELSE Last(OutLines[i]) = ","

\* C5 witness: a container that is the last entry of its container.
C5_Witness ==
    /\ Succeeded
    /\ \E i \in 2..(Len(OutRows) - 2) :
           /\ OutRows[i].role = "close"
           /\ OutRows[i + 1].role = "close"
           /\ OutRows[i + 1].depth = 1

\* C6: the number of tabs at the start of every line is the nesting depth of
\* the node it renders: 0 for the root's braces, d for the opening and the
\* closing line of a container at depth d, d + 1 for its direct entries.
C6_Indentation ==
    Succeeded =>
        /\ Len(OutLines) = Len(OutRows)
        /\ \A i \in 1..Len(OutRows) : LeadingTabs(OutLines[i]) = OutRows[i].depth

\* C6 witness: a container at depth 2 closes after an entry at depth 3.
C6_Witness ==
    /\ Succeeded
    /\ \E i \in 2..Len(OutRows) :
           /\ OutRows[i].role = "close"
           /\ OutRows[i].depth = 2
           /\ OutRows[i - 1].depth = 3

\* what is written for a row after its indentation and key
RowText(row) ==
    CASE row.role = "open"  -> IF row.value.kind = "Array" THEN <<"[">> ELSE <<"{">>
      [] row.role = "close" -> IF row.value.kind = "Array" THEN <<"]", ",">> ELSE <<"}", ",">>
      [] OTHER -> primitive(row.value) \o <<",">>

\* C7: an array at depth d is "[", its elements in input order at depth
\* d + 1 without a key, then d tabs and "]"; an object that is an element is
\* unkeyed, its members are keyed.
C7_Arrays ==
    Succeeded =>
        /\ Len(OutLines) = Len(OutRows)
        /\ \A i \in 1..Len(OutRows) :
               LET row == OutRows[i]
                   line == OutLines[i]
               IN  /\ row.value.kind = "Array" /\ row.role = "open" => Last(line) = "["
                   /\ row.value.kind = "Array" /\ row.role = "close" =>
                          line = Tabs(row.depth) \o <<"]", ",">>
                   /\ row.parent = "Array" =>
                          /\ ~HasKeyPrefix(line, row.depth)
                          /\ line = Tabs(row.depth) \o RowText(row)
                   /\ row.parent = "Object" /\ row.role # "close" =>
                          HasKeyPrefix(line, row.depth)

\* C7 witness: an array that holds a primitive and then an object with a member.
C7_Witness ==
    /\ Succeeded
    /\ \E i \in 1..(Len(OutRows) - 1) :
           /\ OutRows[i].parent = "Array"
           /\ OutRows[i].value.kind = "Object"
           /\ OutRows[i].role = "open"
           /\ OutRows[i + 1].key.some

\* C8: a text that is not JSON yields the parser's error and no text; the
\* result is the complete rendering or an error, never a part of it, and no
\* error arises once from_str has succeeded.
C8_AllOrNothing ==
    /\ pc = "done" /\ ~json.valid => result = Err("syntax")
    /\ result.state = "Err" => pc = "done" /\ lua = <<>> /\ map = <<>> /\ iter = 1
    /\ pc = "loop" => result = Pending
    /\ pc = "done" => result.state \in {"Ok", "Err"}
    /\ result.state = "Ok" =>
           /\ pc = "done"
           /\ json.valid
           /\ iter = Len(map) + 1
           /\ result.lua = lua
           /\ Len(OutLines) = Len(OutRows)
           /\ Last(OutLines) = <<"}">>

\* C8 witness: the parse of a text that is not JSON has returned.
C8_Witness == pc = "done" /\ ~json.valid /\ result.state = "Err"

\* C9: a document whose root is not an object yields an error and no text;
\* only a root object yields a result.
C9_RootMustBeObject ==
    /\ json.valid /\ json.root.kind # "Object" =>
           /\ pc \in {"start", "done"}
           /\ lua = <<>>
           /\ pc = "done" => result = Err("invalid type")
    /\ result.state = "Ok" => json.valid /\ json.root.kind = "Object"

\* C9 witness: the parse of a root array with an element has returned.
C9_Witness ==
    /\ pc = "done"
    /\ json.valid
    /\ json.root.kind = "Array"
    /\ Len(json.root.a) > 0
    /\ result.state = "Err"

(***************************************************************************)
(* Properties of the functions (specification SpecFn)                      *)
(***************************************************************************)
Returned(fn) == pc = "fn" /\ call.fn = fn /\ ret.some

\* C3: reversing the five substitutions on escape(s) gives s back, and the
\* characters of s other than the five are in escape(s) unchanged and in the
\* same order (what is left of escape(s) without its escape pairs).
C3_EscapeReversible ==
    Returned("validate_string") =>
        /\ WellEscaped(ret.v)
        /\ Unescape(ret.v) = call.string
        /\ StripEscapes(ret.v) = SelectSeq(call.string, IsPlain)

\* C3 witness: a backslash followed by n, then a newline, has been escaped.
C3_Witness == Returned("validate_string") /\ call.string = <<BS, "n", NL>>

\* the parts of the output of walk for a string value
ValueQuote == call.depth + Len(key_prefix(call.key)) + 1

\* C10: escape(s) holds no raw newline, tab or carriage return, each of its
\* double quotes follows an odd number of backslashes and it ends with an
\* even number of them; so the quotes walk puts around a key or a string
\* value are the only unescaped ones and the literal ends where walk ends it.
C10_LiteralsNotTerminated ==
    /\ Returned("validate_string") =>
           /\ \A i \in 1..Len(ret.v) :
                  /\ ret.v[i] \notin {NL, TAB, CR}
                  /\ ret.v[i] = DQ => BackslashRun(ret.v, i - 1) % 2 = 1
           /\ BackslashRun(ret.v, Len(ret.v)) % 2 = 0
    /\ Returned("walk") =>
           /\ call.key.some =>
                  /\ HasKeyPrefix(ret.v, call.depth)
                  /\ StrEnd(ret.v, call.depth + 3) = ValueQuote - 5
                  /\ Unescape(LexedKey(ret.v, call.depth)) = call.key.v
           /\ call.value.kind = "String" =>
                  /\ ret.v[ValueQuote] = DQ
                  /\ StrEnd(ret.v, ValueQuote + 1) = Len(ret.v) - 2
                  /\ Unescape(SubSeq(ret.v, ValueQuote + 1, Len(ret.v) - 3)) = call.value.s
                  /\ \A i \in 1..(Len(ret.v) - 1) : ret.v[i] # NL

\* C10 witness: walk has rendered a string that ends with a backslash and a
\* double quote under a key that is a double quote.
C10_Witness ==
    /\ Returned("walk")
    /\ call.key = Some(<<DQ>>)
    /\ call.value = StringV(<<BS, DQ>>)

IsDigit(c) == c \in {"0", "1", "2", "3", "4", "5", "6", "7", "8", "9"}

DigitValue(c) == CHOOSE d \in 0..9 : Digit(d) = c

\* the number a sequence of decimal digits denotes
RECURSIVE DecimalValue(_)
DecimalValue(ds) ==
    IF ds = <<>> THEN 0
    ELSE 10 * DecimalValue(SubSeq(ds, 1, Len(ds) - 1)) + DigitValue(Last(ds))

\* ds is the decimal numeral of a natural number: digits, no leading zero
IsNumeral(ds) ==
    /\ ds # <<>>
    /\ \A i \in 1..Len(ds) : IsDigit(ds[i])
    /\ Len(ds) > 1 => ds[1] # "0"

Unsigned(text) == IF text # <<>> /\ text[1] = "-" THEN Tail(text) ELSE text

\* text is the decimal text of the number n
IsDecimalOf(text, n) ==
    LET neg == text # <<>> /\ text[1] = "-"
        u == Unsigned(text)
    IN  IF n.t = "Int"
        THEN /\ IsNumeral(u)
             /\ DecimalValue(u) = Abs(n.i)
             /\ neg <=> n.i < 0
        ELSE /\ Len(u) >= 3
             /\ u[Len(u) - 1] = "."
             /\ IsNumeral(SubSeq(u, 1, Len(u) - 2))
             /\ IsDigit(Last(u))
             /\ 10 * DecimalValue(SubSeq(u, 1, Len(u) - 2)) + DigitValue(Last(u))
                    = Abs(n.tenths)
             /\ neg <=> n.tenths < 0

IsLiteralOf(text, value) ==
    CASE value.kind = "String" -> text = <<DQ>> \o validate_string(value.s) \o <<DQ>>
      [] value.kind = "Bool"   ->
             text = (IF value.b THEN <<"t", "r", "u", "e">> ELSE <<"f", "a", "l", "s", "e">>)
      [] value.kind = "Null"   -> text = <<"n", "i", "l">>
      [] value.kind = "Number" -> IsDecimalOf(text, value.n)

\* C4: what walk writes for a primitive between the key prefix and the
\* closing ",\n" is the quoted escaped string, true, false, nil, or the
\* decimal text of the number (an integer without a decimal point).
C4_PrimitiveLiterals ==
    Returned("walk") /\ ~IsContainer(call.value) =>
        LET pre == Tabs(call.depth)
                       \o (IF call.key.some
                           THEN <<"[", DQ>> \o validate_string(call.key.v)
                                    \o <<DQ, "]", " ", "=", " ">>
                           ELSE <<>>)
        IN  /\ Len(ret.v) >= Len(pre) + 2
            /\ StartsWith(ret.v, pre)
            /\ SubSeq(ret.v, Len(ret.v) - 1, Len(ret.v)) = <<",", NL>>
            /\ IsLiteralOf(SubSeq(ret.v, Len(pre) + 1, Len(ret.v) - 2), call.value)

\* C4 witness: walk has rendered a negative two-digit integer under a key at
\* depth 2.
C4_Witness ==
    /\ Returned("walk")
    /\ call.value = IntV(-12)
    /\ call.key.some
    /\ call.depth = 2

====
